---- MODULE Spec2Model ----
(***************************************************************************)
(* Model of cowhepaco: the conda/wheel comparator (__main__.py), the       *)
(* archive reader (conda.py) and the PEP 503 index (package_index.py).     *)
(*                                                                         *)
(* Text is modelled structurally:                                          *)
(*   - a path is the sequence of its "/"-separated segments; the empty     *)
(*     string is the empty sequence, a trailing "/" is a last segment "";  *)
(*   - file contents are sequences of one-character strings;               *)
(*   - a package name is a sequence of one-character strings;              *)
(*   - a build tag is the sequence of its "-"-separated segments.          *)
(***************************************************************************)
EXTENDS Integers, Sequences, FiniteSets, TLC

VARIABLES
    \* ---- compare (Reconciler) ----
    files,        \* the source file sequence handed to compare
    wheel,        \* the counterpart archive: its filelist, in archive order
    run,          \* how many times compare has run on these inputs
    result,       \* the list returned by the latest run
    prev_result,  \* the list returned by the run before it
    \* ---- get_pypi_wheel_url (CatalogResolver) ----
    cache,        \* the __cache default argument: normalized name -> files or None
    queries,      \* normalized name -> number of urlopen calls issued for it
    calls,        \* number of get_pypi_wheel_url calls made so far
    last,         \* what the latest call was given, found and did
    catalog,      \* the remote catalog: normalized name -> published files
    \* ---- main / download_and_compare ----
    batch,        \* args.conda_package_name
    pos,          \* index of the next package of the batch
    new_wheels,   \* main's new_wheels list
    outcomes,     \* per processed package: the reported outcome
    final_dir,    \* wheel names present in <package_dir>/files
    broken_dir,   \* wheel names present in <package_dir>/broken
    mpc,          \* "running", "done" or the name of the uncaught exception
    \* ---- package_index ----
    db,           \* the packages table: sequence of rows (insertion order)
    store,        \* <index_dir>/files: wheel file name -> bytes
    top_listing,  \* simple/index.html: the sequence of listed names
    pkg_listing,  \* simple/<name>/index.html: name -> sequence of items
    signal,       \* how the latest add_wheel ended
    adds          \* number of add_wheel calls made so far

cmpVars == <<files, wheel, run, result, prev_result>>
resVars == <<cache, queries, calls, last, catalog>>
mainVars == <<batch, pos, new_wheels, outcomes, final_dir, broken_dir, mpc>>
idxVars == <<db, store, top_listing, pkg_listing, signal, adds>>
vars == <<cmpVars, resVars, mainVars, idxVars>>

\* Python's None where the other values are strings
None == "None"

\* an optional value of any other kind: the empty sequence for None
Nothing == <<>>
Some(x) == <<x>>

(***************************************************************************)
(* Generic sequence helpers.                                               *)
(***************************************************************************)
RECURSIVE Flatten(_)
Flatten(ss) == IF ss = <<>> THEN <<>> ELSE Head(ss) \o Flatten(Tail(ss))

Range(s) == {s[i] : i \in DOMAIN s}

Count(s, x) == Cardinality({i \in DOMAIN s : s[i] = x})

SeqsUpTo(S, n) == UNION {[1..k -> S] : k \in 0..n}

(***************************************************************************)
(* Text predicates on path segments.  A segment is one string; what        *)
(* str.endswith sees of it is tabulated here.                              *)
(***************************************************************************)
\* the segment's text ends with the text m
SegEndsWith(seg, m) ==
    \/ seg = m
    \/ m = "site-packages" /\ seg = "my-site-packages"
    \/ m = "bin" /\ seg = "sbin"
    \/ m = ".pyc" /\ seg = "mod.pyc"
    \/ m = ".dist-info" /\ seg = "pkg-1.0.dist-info"
    \/ m = ".data" /\ seg = "pkg-1.0.data"

FirstSeg(name) == IF name = <<>> THEN "" ELSE name[1]
LastSeg(name) == IF name = <<>> THEN "" ELSE name[Len(name)]

\* "m" in name.split("/")
HasSegment(name, m) == \E i \in DOMAIN name : name[i] = m

\* name.partition(m + "/")[-1]: the text after the first occurrence of m
\* followed by "/"; the empty string when there is none
PartitionAfter(name, m) ==
    LET hits == {i \in 1..(Len(name) - 1) : SegEndsWith(name[i], m)}
    IN  IF hits = {} THEN <<>>
        ELSE LET i == CHOOSE h \in hits : \A g \in hits : h <= g
             IN  SubSeq(name, i + 1, Len(name))

\* ZipInfo.is_dir(): the file name ends with "/"
IsDir(info) == info.filename # <<>> /\ LastSeg(info.filename) = ""

\* ZipFile.open(name): present iff some member carries that name
Holds(w, name) == \E i \in DOMAIN w : w[i].filename = name

\* ZipFile.open(name).read(): NameToInfo keeps the last member of that name
ReadMember(w, name) ==
    LET i == CHOOSE k \in DOMAIN w :
                 w[k].filename = name /\ \A j \in DOMAIN w : w[j].filename = name => j <= k
    IN  w[i].data

(***************************************************************************)
(* read_entry_points and get_data_directory.                               *)
(***************************************************************************)
\* One stripped line of entry_points.txt, split by line.partition("="):
\* the text before the first "=", stripped
LineName(line) ==
    CASE line = "tool = pkg:main" -> "tool"
      [] line = "gtool = pkg:gui" -> "gtool"
      [] OTHER -> line

\* the text after the first "=", stripped
LineScript(line) ==
    CASE line = "tool = pkg:main" -> "pkg:main"
      [] line = "gtool = pkg:gui" -> "pkg:gui"
      [] OTHER -> ""

\* line.startswith("[")
IsHeader(line) == line \in {"[console_scripts]", "[gui_scripts]"}

RECURSIVE ParseEntryPoints(_, _, _)
ParseEntryPoints(lines, in_scripts, acc) ==
    IF lines = <<>> THEN acc
    ELSE LET line == Head(lines)
         IN  IF IsHeader(line)
             THEN ParseEntryPoints(Tail(lines), line = "[console_scripts]", acc)
             ELSE IF in_scripts
             THEN ParseEntryPoints(Tail(lines), in_scripts,
                      [k \in DOMAIN acc \cup {LineName(line)} |->
                          IF k = LineName(line) THEN LineScript(line) ELSE acc[k]])
             ELSE ParseEntryPoints(Tail(lines), in_scripts, acc)

\* fileinfo.filename.endswith(".dist-info/entry_points.txt")
IsEntryPointsFile(name) ==
    /\ Len(name) >= 2
    /\ name[Len(name)] = "entry_points.txt"
    /\ SegEndsWith(name[Len(name) - 1], ".dist-info")

\* the dict of console scripts, as a function from script name to target
read_entry_points(w) ==
    LET hits == {i \in DOMAIN w : IsEntryPointsFile(w[i].filename)}
    IN  IF hits = {} THEN <<>>
        ELSE LET i == CHOOSE h \in hits : \A g \in hits : h <= g
             IN  ParseEntryPoints(w[i].data, FALSE, <<>>)

\* the first top-level directory whose name ends with ".data", or None
get_data_directory(w) ==
    LET hits == {i \in DOMAIN w : SegEndsWith(FirstSeg(w[i].filename), ".data")}
    IN  IF hits = {} THEN None
        ELSE LET i == CHOOSE h \in hits : \A g \in hits : h <= g
             IN  FirstSeg(w[i].filename)

(***************************************************************************)
(* compare.                                                                *)
(***************************************************************************)
\* re.sub(rb"^#!.*/", b"#!", data): without re.MULTILINE "^" matches at the
\* start of the data only, and "." does not match a newline, so the greedy
\* ".*/" runs to the last "/" of the first line.
StripShebang(data) ==
    IF Len(data) >= 2 /\ data[1] = "#" /\ data[2] = "!"
    THEN LET nls == {j \in 3..Len(data) : data[j] = "\n"}
             eol == IF nls = {} THEN Len(data) + 1
                    ELSE CHOOSE j \in nls : \A k \in nls : j <= k
             slashes == {j \in 3..(eol - 1) : data[j] = "/"}
         IN  IF slashes = {} THEN data
             ELSE LET j == CHOOSE s \in slashes : \A k \in slashes : k <= s
                  IN  <<"#", "!">> \o SubSeq(data, j + 1, Len(data))
    ELSE data

\* the key of entry_points a name can equal: a name of several segments
\* contains "/" and equals no script name
ScriptKey(name) ==
    IF name = <<>> THEN "" ELSE IF Len(name) = 1 THEN name[1] ELSE "/"

\* name.startswith(("bin/", "python-scripts/"))
StartsWithBinDir(name) == Len(name) >= 2 /\ name[1] \in {"bin", "python-scripts"}

\* the name a source path is remapped to under the data directory
DataName(name, data_directory) ==
    IF StartsWithBinDir(name)
    THEN <<data_directory, "scripts">> \o Tail(name)
    ELSE <<data_directory, "data">> \o name

\* the library rule without the .pyc exemption of line 50
LibraryErrorsPycReported(file, w) ==
    LET name == PartitionAfter(file.name, "site-packages")
    IN  IF ~Holds(w, name) THEN << <<"not found", name>> >>
        ELSE IF file.data # ReadMember(w, name) THEN << <<"differ", name>> >>
             ELSE <<>>

\* lines 44-55: the library placement rule
LibraryErrors(file, w) ==
    LET name == PartitionAfter(file.name, "site-packages")
    IN  IF ~Holds(w, name)
        THEN IF SegEndsWith(LastSeg(file.name), ".pyc") THEN <<>>
             ELSE << <<"not found", name>> >>
        ELSE IF file.data # ReadMember(w, name) THEN << <<"differ", name>> >>
             ELSE <<>>

\* lines 56-63: the two script placement rules
ScriptErrors(file, marker, entry_points) ==
    IF ScriptKey(PartitionAfter(file.name, marker)) \notin DOMAIN entry_points
    THEN << <<"outside", file.name>> >>
    ELSE <<>>

\* lines 64-80: the data-directory placement rule
DataErrors(file, w, data_directory) ==
    LET name == DataName(file.name, data_directory)
    IN  IF ~Holds(w, name) THEN << <<"outside", file.name>> >>
        ELSE IF StripShebang(file.data) # StripShebang(ReadMember(w, name))
             THEN << <<"differ", name>> >>
             ELSE <<>>

\* which of the five branches of the loop body a source file takes
Placement(file, entry_points, data_directory) ==
    IF HasSegment(file.name, "site-packages") THEN "library"
    ELSE IF HasSegment(file.name, "bin") /\ DOMAIN entry_points # {} THEN "bin"
    ELSE IF HasSegment(file.name, "python-scripts") /\ DOMAIN entry_points # {}
    THEN "python-scripts"
    ELSE IF data_directory # None THEN "data"
    ELSE "outside"

\* what one iteration of the loop appends to errors
EntryErrors(file, w, entry_points, data_directory) ==
    LET p == Placement(file, entry_points, data_directory)
    IN  CASE p = "library" -> LibraryErrors(file, w)
          [] p = "bin" -> ScriptErrors(file, "bin", entry_points)
          [] p = "python-scripts" -> ScriptErrors(file, "python-scripts", entry_points)
          [] p = "data" -> DataErrors(file, w, data_directory)
          [] OTHER -> << <<"outside", file.name>> >>

\* what one iteration of the loop adds to names_seen
EntrySeen(file, w, entry_points, data_directory) ==
    LET p == Placement(file, entry_points, data_directory)
    IN  CASE p = "library" -> {PartitionAfter(file.name, "site-packages")}
          [] p = "data" ->
               IF Holds(w, DataName(file.name, data_directory))
               THEN {DataName(file.name, data_directory)} ELSE {}
          [] OTHER -> {}

\* lines 43-82: errors after the loop over the source files
LoopErrors(fs, w) ==
    Flatten([i \in DOMAIN fs |->
        EntryErrors(fs[i], w, read_entry_points(w), get_data_directory(w))])

\* lines 39-82: names_seen after the loop
NamesSeen(fs, w) ==
    UNION {EntrySeen(fs[i], w, read_entry_points(w), get_data_directory(w)) :
           i \in DOMAIN fs}

\* lines 84-86: the counterpart's regular files that no source file named
NotFound(fs, w) ==
    {w[i].filename : i \in {k \in DOMAIN w : ~IsDir(w[k])}} \ NamesSeen(fs, w)

\* file.endswith("/.git")
EndsWithGit(name) == Len(name) >= 2 /\ LastSeg(name) = ".git"

\* lines 87-89: not_found is a set; iterating it visits its members in an
\* order the language leaves open (string hashing is seeded per process),
\* so the order is an input: order is some ordering of not_found
AdditionalErrors(order) ==
    LET keep == SelectSeq(order, LAMBDA f : ~EndsWithGit(f))
    IN  [i \in DOMAIN keep |-> <<"additional", keep[i]>>]

\* name.split("/")[0].endswith(".dist-info")
IsMetadataName(name) == SegEndsWith(FirstSeg(name), ".dist-info")

\* lines 90-94: the returned list
FilterMetadata(errs) == SelectSeq(errs, LAMBDA e : ~IsMetadataName(e[2]))

\* compare(files, wheel), given the order in which not_found is iterated
compare(fs, w, order) ==
    FilterMetadata(LoopErrors(fs, w) \o AdditionalErrors(order))

(***************************************************************************)
(* Inputs of compare: source files and counterpart archives.               *)
(***************************************************************************)
MaxFiles == 2
MaxRuns == 2

DI == "pkg-1.0.dist-info"
DD == "pkg-1.0.data"

DataX == <<"x">>
DataY == <<"y">>
DataM == <<"m">>
DataR == <<"r">>

\* first lines "#!<dir><interpreter><arguments>", then a body
ShPlain == <<"#", "!", "/", "u", "/", "p", "\n", "x">>
ShMoved == <<"#", "!", "/", "o", "/", "c", "/", "p", "\n", "x">>
ShOther == <<"#", "!", "/", "u", "/", "q", "\n", "x">>
ShArgO == <<"#", "!", "/", "u", "/", "p", " ", "-", "O", "\n", "x">>
ShArgX == <<"#", "!", "/", "u", "/", "p", " ", "-", "X", "\n", "x">>
ShPathA == <<"#", "!", "/", "u", "/", "p", " ", "/", "a", "/", "r", "\n", "x">>
ShPathB == <<"#", "!", "/", "u", "/", "q", " ", "/", "b", "/", "r", "\n", "x">>
ShBody == <<"#", "!", "p", "\n", "/", "x">>
NoShebang == <<"x", "\n", "#", "!", "/", "u", "/", "p">>

\* the scripts a source package installs and the ones a wheel ships
SourceScripts == {ShPlain, ShArgO, ShPathB, ShBody, NoShebang}
WheelScriptFiles == {ShPlain, ShMoved, ShOther, ShArgX, ShPathA, ShBody}

Member(name, data) == [filename |-> name, data |-> data]
Source(name, data) == [name |-> name, data |-> data]

EntryPointsTxt ==
    <<"[gui_scripts]", "gtool = pkg:gui", "[console_scripts]", "tool = pkg:main">>

WheelPlain ==
    <<Member(<<"pkg", "mod.py">>, DataX), Member(<<DI, "METADATA">>, DataM),
      Member(<<DI, "RECORD">>, DataR)>>

WheelScripts ==
    <<Member(<<"pkg", "mod.py">>, DataX), Member(<<DI, "METADATA">>, DataM),
      Member(<<DI, "entry_points.txt">>, EntryPointsTxt)>>

WheelData(script) ==
    <<Member(<<DI, "METADATA">>, DataM),
      Member(<<DD, "scripts", "run">>, script),
      Member(<<DD, "data", "share", "doc">>, DataX)>>

WheelExtra ==
    <<Member(<<"pkg", "">>, <<>>), Member(<<"pkg", "mod.py">>, DataX),
      Member(<<"pkg", "extra.py">>, DataX), Member(<<"pkg", ".git">>, DataX),
      Member(<<DI, "METADATA">>, DataM)>>

WheelBoth ==
    <<Member(<<DI, "entry_points.txt">>, EntryPointsTxt),
      Member(<<DD, "scripts", "run">>, ShPlain),
      Member(<<DD, "data", "share", "doc">>, DataX)>>

Wheels ==
    {WheelPlain, WheelScripts, WheelExtra, WheelBoth} \cup {WheelData(sc) : sc \in WheelScriptFiles}

SourceEntries ==
    {Source(<<"lib", "site-packages", "pkg", "mod.py">>, d) : d \in {DataX, DataY}}
    \cup {Source(<<"lib", "site-packages", "pkg", "mod.pyc">>, DataX),
          Source(<<"lib", "site-packages", "pkg", "extra.py">>, DataX),
          Source(<<"lib", "site-packages", DI, "RECORD">>, DataX),
          Source(<<"lib", "site-packages", DI, "INSTALLER">>, DataX),
          Source(<<"my-site-packages", "lib", "site-packages", "pkg", "mod.py">>, DataX),
          Source(<<"lib", "site-packages">>, DataX),
          Source(<<"bin", "tool">>, DataX),
          Source(<<"python-scripts", "tool">>, DataX),
          Source(<<"etc", "conf">>, DataX)}
    \cup {Source(<<"bin", "run">>, sc) : sc \in SourceScripts}
    \cup {Source(<<"share", "doc">>, d) : d \in {DataX, DataY}}

\* all orderings of a finite set
RECURSIVE Perms(_)
Perms(S) ==
    IF S = {} THEN {<<>>}
    ELSE UNION {{<<x>> \o q : q \in Perms(S \ {x})} : x \in S}

(***************************************************************************)
(* The comparator run on fixed inputs, then run again on the same inputs.  *)
(***************************************************************************)
CompareCall ==
    /\ run < MaxRuns
    /\ \E order \in Perms(NotFound(files, wheel)) :
           result' = compare(files, wheel, order)
    /\ prev_result' = result
    /\ run' = run + 1
    /\ UNCHANGED <<files, wheel>>

(***************************************************************************)
(* Name normalization (re.sub of separator runs, then lower()).            *)
(***************************************************************************)
Separators == {"-", ".", "_"}

\* str.lower() on one character
Lower(c) ==
    CASE c = "F" -> "f"
      [] c = "B" -> "b"
      [] c = "Z" -> "z"
      [] OTHER -> c

\* re.sub("[-._]+", rep, name).lower(): every maximal run of separators
\* becomes one rep
RECURSIVE CollapseRuns(_, _)
CollapseRuns(name, rep) ==
    IF name = <<>> THEN <<>>
    ELSE IF Head(name) \in Separators
    THEN IF Len(name) >= 2 /\ name[2] \in Separators
         THEN CollapseRuns(Tail(name), rep)
         ELSE <<rep>> \o CollapseRuns(Tail(name), rep)
    ELSE <<Lower(Head(name))>> \o CollapseRuns(Tail(name), rep)

\* __main__.py line 98
NormalizeUnderscore(name) == CollapseRuns(name, "_")

\* package_index.py normalize
normalize(name) == CollapseRuns(name, "-")

(***************************************************************************)
(* get_pypi_wheel_url.                                                     *)
(*                                                                         *)
(* A published file name <dist>-<version>-<tag>.<ext> is the record        *)
(* [dist, version, tag, ext]; tag is the sequence of the "-"-separated     *)
(* segments between the version and the extension.                        *)
(***************************************************************************)
\* file["filename"].startswith(f"{normalized}-{version}-")
StartsWithPrefix(file, normalized, version) ==
    file.dist = normalized /\ file.version = version /\ Len(file.tag) >= 1

\* "manylinux" in file_tag: the marker lies inside one segment
HasManylinux(tag) ==
    \E i \in DOMAIN tag : tag[i] \in {"manylinux_x86_64", "manylinux_aarch64"}

\* "x86_64" in file_tag
HasX86(tag) ==
    \E i \in DOMAIN tag : tag[i] \in {"manylinux_x86_64", "linux_x86_64"}

\* lines 116-121: the dict found, as its keys in insertion order ...
RECURSIVE FoundKeys(_, _, _)
FoundKeys(fs, normalized, version) ==
    IF fs = <<>> THEN <<>>
    ELSE LET rest == FoundKeys(SubSeq(fs, 1, Len(fs) - 1), normalized, version)
             f == fs[Len(fs)]
         IN  IF StartsWithPrefix(f, normalized, version) /\ f.tag \notin Range(rest)
             THEN Append(rest, f.tag)
             ELSE rest

\* ... and its values: the last matching file carrying that tag
FoundValue(fs, normalized, version, tag) ==
    LET hits == {i \in DOMAIN fs :
                     StartsWithPrefix(fs[i], normalized, version) /\ fs[i].tag = tag}
    IN  fs[CHOOSE i \in hits : \A j \in hits : j <= i]

\* the selection with the universal wheels tried before the manylinux one
SelectWheelUniversalFirst(fs, normalized, version, tag) ==
    LET keys == FoundKeys(fs, normalized, version)
        value(t) == Some(FoundValue(fs, normalized, version, t))
    IN  IF tag # Nothing /\ tag[1] \in Range(keys) THEN value(tag[1])
        ELSE IF tag = Nothing \/ Len(tag[1]) < 3 THEN Nothing
        ELSE IF <<"py3", "none", "any">> \in Range(keys)
        THEN value(<<"py3", "none", "any">>)
        ELSE IF <<"py2.py3", "none", "any">> \in Range(keys)
        THEN value(<<"py2.py3", "none", "any">>)
        ELSE LET binary == {i \in DOMAIN keys :
                               /\ Len(keys[i]) >= 3
                               /\ keys[i][1] = tag[1][1]
                               /\ keys[i][2] = tag[1][2]
                               /\ HasManylinux(keys[i])
                               /\ HasX86(keys[i])}
             IN  IF binary # {}
                 THEN value(keys[CHOOSE i \in binary : \A j \in binary : i <= j])
                 ELSE Nothing

\* lines 122-136: the selection among the files found; tag and the value
\* returned are optional values
SelectWheel(fs, normalized, version, tag) ==
    LET keys == FoundKeys(fs, normalized, version)
        value(t) == Some(FoundValue(fs, normalized, version, t))
    IN  IF tag # Nothing /\ tag[1] \in Range(keys) THEN value(tag[1])
        \* tag.split("-", 2) must yield three parts: AttributeError for
        \* None, ValueError for fewer than three segments
        ELSE IF tag = Nothing \/ Len(tag[1]) < 3 THEN Nothing
        ELSE LET binary == {i \in DOMAIN keys :
                               /\ Len(keys[i]) >= 3
                               /\ keys[i][1] = tag[1][1]
                               /\ keys[i][2] = tag[1][2]
                               /\ HasManylinux(keys[i])
                               /\ HasX86(keys[i])}
             IN  IF binary # {}
                 THEN value(keys[CHOOSE i \in binary : \A j \in binary : i <= j])
                 ELSE IF <<"py3", "none", "any">> \in Range(keys)
                 THEN value(<<"py3", "none", "any">>)
                 ELSE IF <<"py2.py3", "none", "any">> \in Range(keys)
                 THEN value(<<"py2.py3", "none", "any">>)
                 ELSE Nothing

\* `not files`: None and the empty list are both falsy
Falsy(fs) == fs = Nothing \/ fs[1] = <<>>

\* get_pypi_wheel_url(package_name, package_version, tag) run against the
\* memo c and the remote catalog; net is what urlopen does if it is called:
\* "ok", "HTTPError" (an error status) or "URLError" (no answer at all).
\* urllib.error.URLError is not an HTTPError, so line 111 does not catch it.
\* A memo entry is an optional list: Nothing for None.
get_pypi_wheel_url(c, remote, package_name, package_version, tag, net) ==
    LET normalized == NormalizeUnderscore(package_name)
    IN  IF normalized \in DOMAIN c
        THEN [cache |-> c, queried |-> FALSE, raised |-> None,
              result |-> IF Falsy(c[normalized]) THEN Nothing
                         ELSE SelectWheel(c[normalized][1], normalized,
                                          package_version, tag)]
        ELSE IF net = "HTTPError"
        THEN [cache |-> [n \in DOMAIN c \cup {normalized} |->
                            IF n = normalized THEN Nothing ELSE c[n]],
              queried |-> TRUE, raised |-> None, result |-> Nothing]
        ELSE IF net = "URLError"
        THEN [cache |-> c, queried |-> TRUE, raised |-> "URLError", result |-> Nothing]
        ELSE [cache |-> [n \in DOMAIN c \cup {normalized} |->
                            IF n = normalized THEN Some(remote[normalized]) ELSE c[n]],
              queried |-> TRUE, raised |-> None,
              result |-> SelectWheel(remote[normalized], normalized,
                                     package_version, tag)]

(***************************************************************************)
(* Inputs of get_pypi_wheel_url: package names, tags, catalog listings.    *)
(***************************************************************************)
MaxCalls == 2

NameFB == <<"F", "_", "B">>
NameFb == <<"f", "-", ".", "b">>
NameZ == <<"Z">>
NormFB == <<"f", "_", "b">>
NormZ == <<"z">>

PackageNames == {NameFB, NameFb, NameZ}
Versions == {"1.0"}

TagLinux == <<"cp311", "cp311", "linux_x86_64">>
TagMany == <<"cp311", "cp311", "manylinux_x86_64">>
TagArm == <<"cp311", "cp311", "manylinux_aarch64">>
TagMany310 == <<"cp310", "cp310", "manylinux_x86_64">>
TagPy3 == <<"py3", "none", "any">>
TagPy23 == <<"py2.py3", "none", "any">>
TagShort == <<"cp311", "cp311">>

\* the tags a caller asks for: None when the package has no WHEEL file
Tags == {Nothing, Some(TagLinux), Some(TagPy3), Some(TagShort)}

Net == {"ok", "HTTPError", "URLError"}

WheelFile(dist, version, tag) ==
    [dist |-> dist, version |-> version, tag |-> tag, ext |-> "whl"]

\* what the catalog may publish for f_b, in the order it lists them
Published ==
    <<WheelFile(NormFB, "1.0", TagPy23), WheelFile(NormFB, "1.0", TagPy3),
      WheelFile(NormFB, "2.0", TagLinux), WheelFile(NormFB, "1.0", TagArm),
      WheelFile(NormFB, "1.0", TagMany310), WheelFile(NormFB, "1.0", TagMany),
      WheelFile(NormFB, "1.0", TagLinux)>>

Catalogs ==
    {[n \in {NormFB, NormZ} |->
         IF n = NormFB THEN SelectSeq(Published, LAMBDA f : f \in S) ELSE <<>>] :
     S \in SUBSET Range(Published)}

(***************************************************************************)
(* The resolver called repeatedly within one process.                      *)
(***************************************************************************)
\* the value of last before any call
NoCall ==
    [name |-> <<>>, version |-> "", tag |-> Nothing,
     queried |-> FALSE, raised |-> None, result |-> Nothing]

GetPypiWheelUrl ==
    /\ calls < MaxCalls
    /\ \E name \in PackageNames, version \in Versions, tag \in Tags, net \in Net :
           LET r == get_pypi_wheel_url(cache, catalog, name, version, tag, net)
               n == NormalizeUnderscore(name)
           IN  /\ cache' = r.cache
               /\ queries' = IF r.queried THEN [queries EXCEPT ![n] = @ + 1]
                             ELSE queries
               /\ last' = [name |-> name, version |-> version, tag |-> tag,
                           queried |-> r.queried, raised |-> r.raised,
                           result |-> r.result]
    /\ calls' = calls + 1
    /\ UNCHANGED catalog

(***************************************************************************)
(* package_index: the packages table, the stored files, the listings.      *)
(*                                                                         *)
(* A wheel file name has the shape of a published file name (WheelFile).   *)
(***************************************************************************)
\* hashlib.sha256 over the whole file: a collision-free digest
calculate_sha256(bytes) == <<"sha256", bytes>>

\* name, _, version = wheel_path.name.partition('-'): name is the text
\* before the first "-", version is ALL the text after it
PartitionName(filename) == filename.dist
PartitionVersion(filename) ==
    [version |-> filename.version, tag |-> filename.tag, ext |-> filename.ext]

\* the table of create_database with its UNIQUE(name, version) constraint:
\* the INSERT of add_wheel raises IntegrityError on a second row with the
\* same two columns
Conflicts(rows, name, version) ==
    \E i \in DOMAIN rows : rows[i].name = name /\ rows[i].version = version

\* lines 73-75: the keys of packages in insertion order
RECURSIVE PackageKeys(_)
PackageKeys(rows) ==
    IF rows = <<>> THEN <<>>
    ELSE LET rest == PackageKeys(SubSeq(rows, 1, Len(rows) - 1))
             name == rows[Len(rows)].name
         IN  IF name \in Range(rest) THEN rest ELSE Append(rest, name)

\* packages[name]: the (path, sha256) pairs of the rows stored under name
PackageFiles(rows, name) ==
    LET mine == SelectSeq(rows, LAMBDA r : r.name = name)
    IN  [i \in DOMAIN mine |-> [path |-> mine[i].path, sha256 |-> mine[i].sha256]]

\* lines 77-88: the items of simple/index.html, one per key of packages
TopListing(rows) ==
    LET keys == PackageKeys(rows)
    IN  [i \in DOMAIN keys |-> normalize(keys[i])]

\* lines 92-105: simple/<normalized>/index.html is written once per key of
\* packages, in order, each write replacing the file; files of earlier
\* runs stay on disk
RECURSIVE WriteProjects(_, _, _)
WriteProjects(listing, keys, rows) ==
    IF keys = <<>> THEN listing
    ELSE LET n == normalize(Head(keys))
         IN  WriteProjects(
                 [m \in DOMAIN listing \cup {n} |->
                     IF m = n THEN PackageFiles(rows, Head(keys)) ELSE listing[m]],
                 Tail(keys), rows)

PackageListing(listing, rows) == WriteProjects(listing, PackageKeys(rows), rows)

(***************************************************************************)
(* Inputs of add_wheel.                                                    *)
(***************************************************************************)
MaxAdds == 3

Bytes1 == <<"1">>
Bytes2 == <<"2">>

WheelNames ==
    {WheelFile(NameFB, "1.0", TagPy3), WheelFile(NormFB, "1.0", TagPy3),
     WheelFile(NameFB, "1.0", TagMany), WheelFile(NameFB, "2.0", TagPy3)}

\* where the wheel_path argument points: a file outside the index, no file
\* at all, or the index's own files directory
Places == {"incoming", "missing", "files"}

\* add_wheel(wheel_path, index_dir) with wheel_path = <place>/<filename>
\* holding the bytes given
add_wheel ==
    /\ adds < MaxAdds
    /\ adds' = adds + 1
    /\ \E place \in Places, filename \in WheelNames, bytes \in {Bytes1, Bytes2} :
       IF place = "missing" \/ (place = "files" /\ filename \notin DOMAIN store)
       THEN \* line 113: not wheel_path.is_file()
            /\ signal' = "FileNotFoundError"
            /\ UNCHANGED <<db, store, top_listing, pkg_listing>>
       ELSE IF place = "files"
       THEN \* line 120: shutil.copy of a file onto itself
            /\ signal' = "SameFileError"
            /\ UNCHANGED <<db, store, top_listing, pkg_listing>>
       ELSE LET name == PartitionName(filename)
                version == PartitionVersion(filename)
                copied == [f \in DOMAIN store \cup {filename} |->
                              IF f = filename THEN bytes ELSE store[f]]
                row == [name |-> name, version |-> version, path |-> filename,
                        sha256 |-> calculate_sha256(copied[filename])]
                rows == IF Conflicts(db, name, version) THEN db ELSE Append(db, row)
            IN  /\ store' = copied
                /\ db' = rows
                /\ signal' = IF Conflicts(db, name, version) THEN "duplicate" ELSE "added"
                /\ top_listing' = TopListing(rows)
                /\ pkg_listing' = PackageListing(pkg_listing, rows)

(***************************************************************************)
(* download_and_compare and main.                                          *)
(*                                                                         *)
(* A conda package is [archive, meta, files]: archive is "bad" when        *)
(* iter_files raises on it (a .conda container without a pkg- member       *)
(* raises ValueError); meta is what get_wheel_filename reads from          *)
(* METADATA and WHEEL, if there is a METADATA; files is what iter_files    *)
(* yields.                                                                 *)
(***************************************************************************)
MaxBatch == 2

Conda(archive, meta, fs) == [archive |-> archive, meta |-> meta, files |-> fs]
Meta(name, version, tag) == [name |-> name, version |-> version, tag |-> tag]

ModPy(data) == <<Source(<<"lib", "site-packages", "pkg", "mod.py">>, data)>>

PkgGood == Conda("ok", Some(Meta(NameFB, "1.0", Some(TagPy3))), ModPy(DataX))
PkgDiff == Conda("ok", Some(Meta(NameFb, "1.0", Some(TagLinux))), ModPy(DataY))
PkgBad == Conda("bad", Nothing, <<>>)
PkgNoName == Conda("ok", Nothing, ModPy(DataX))
PkgUnknown == Conda("ok", Some(Meta(NameZ, "1.0", Nothing)), ModPy(DataX))

PackageKinds == {PkgGood, PkgDiff, PkgBad, PkgNoName, PkgUnknown}

MainCatalog ==
    [n \in {NormFB, NormZ} |->
        IF n = NormFB
        THEN <<WheelFile(NormFB, "1.0", TagPy3), WheelFile(NormFB, "1.0", TagMany)>>
        ELSE <<>>]

\* the archive behind every download URL of the catalog
Downloaded(file) == WheelPlain

\* download_and_compare(package_path, conda_package_name): what it reports
\* or raises, what it returns, and what it leaves in the memo and on disk.
\* net1 is what the catalog query does, net2 what the download does.
download_and_compare(pkg, c, remote, fin, brk, net1, net2) ==
    LET same == [cache |-> c, final |-> fin, broken |-> brk, wheel |-> Nothing,
                 raised |-> None, outcome |-> "none"]
    IN  IF pkg.archive = "bad"
        THEN \* line 162: get_wheel_filename iterates iter_files
             [same EXCEPT !.raised = "ValueError"]
        ELSE IF pkg.meta = Nothing
        THEN [same EXCEPT !.outcome = "wheel name not found"]
        ELSE LET m == pkg.meta[1]
                 r == get_pypi_wheel_url(c, remote, m.name, m.version, m.tag, net1)
             IN  IF r.raised # None
                 THEN [same EXCEPT !.cache = r.cache, !.raised = r.raised]
                 ELSE IF r.result = Nothing
                 THEN [same EXCEPT !.cache = r.cache,
                                   !.outcome = "wheel package not found"]
                 ELSE IF r.result[1] \in fin
                 THEN [same EXCEPT !.cache = r.cache, !.outcome = "found"]
                 ELSE IF net2 = "HTTPError"
                 THEN [same EXCEPT !.cache = r.cache,
                                   !.outcome = "wheel package not found"]
                 ELSE IF net2 = "URLError"
                 THEN [same EXCEPT !.cache = r.cache, !.raised = "URLError"]
                 ELSE LET w == Downloaded(r.result[1])
                          order == CHOOSE q \in Perms(NotFound(pkg.files, w)) : TRUE
                      IN  IF compare(pkg.files, w, order) # <<>>
                          THEN [same EXCEPT !.cache = r.cache,
                                            !.broken = brk \cup {r.result[1]},
                                            !.outcome = "errors"]
                          ELSE [same EXCEPT !.cache = r.cache,
                                            !.broken = brk \ {r.result[1]},
                                            !.final = fin \cup {r.result[1]},
                                            !.wheel = r.result,
                                            !.outcome = "ok"]

\* one iteration of the loop of main (lines 214-217)
MainStep ==
    /\ mpc = "running"
    /\ pos <= Len(batch)
    /\ \E net1 \in Net, net2 \in Net :
           LET d == download_and_compare(batch[pos], cache, catalog, final_dir,
                                       broken_dir, net1, net2)
           IN  /\ cache' = d.cache
               /\ final_dir' = d.final
               /\ broken_dir' = d.broken
               /\ IF d.raised # None
                  THEN /\ mpc' = d.raised
                       /\ UNCHANGED <<pos, new_wheels, outcomes>>
                  ELSE /\ mpc' = mpc
                       /\ pos' = pos + 1
                       /\ outcomes' = Append(outcomes, d.outcome)
                       /\ new_wheels' = new_wheels \o d.wheel
    /\ UNCHANGED <<batch, catalog, queries, calls, last>>

\* lines 218-219 with nothing validated: main returns
MainReturn ==
    /\ mpc = "running"
    /\ pos > Len(batch)
    /\ new_wheels = <<>>
    /\ mpc' = "done"
    /\ UNCHANGED <<batch, pos, new_wheels, outcomes, final_dir, broken_dir, resVars>>

\* line 219: update_index(args.package_dir, update_wheels=new_wheels), but
\* update_index(index_dir) takes no such argument: the call raises
\* TypeError before update_index runs, and nothing calls add_wheel
MainUpdateIndex ==
    /\ mpc = "running"
    /\ pos > Len(batch)
    /\ new_wheels # <<>>
    /\ mpc' = "TypeError"
    /\ UNCHANGED <<batch, pos, new_wheels, outcomes, final_dir, broken_dir, resVars>>

(***************************************************************************)
(* Specifications: one per program.  The variables of the programs that    *)
(* do not run keep their initial values.                                   *)
(***************************************************************************)
\* compare, run twice on the same inputs
InitCompare ==
    /\ files \in SeqsUpTo(SourceEntries, MaxFiles)
    /\ wheel \in Wheels
    /\ run = 0
    /\ result = <<>>
    /\ prev_result = <<>>
    /\ catalog = MainCatalog
    /\ cache = <<>>
    /\ queries = [n \in {NormFB, NormZ} |-> 0]
    /\ calls = 0
    /\ last = NoCall
    /\ batch = <<>>
    /\ pos = 1
    /\ new_wheels = <<>>
    /\ outcomes = <<>>
    /\ final_dir = {}
    /\ broken_dir = {}
    /\ mpc = "idle"
    /\ db = <<>>
    /\ store = <<>>
    /\ top_listing = <<>>
    /\ pkg_listing = <<>>
    /\ signal = "none"
    /\ adds = 0

NextCompare == CompareCall /\ UNCHANGED <<resVars, mainVars, idxVars>>
SpecCompare == InitCompare /\ [][NextCompare]_vars

\* get_pypi_wheel_url, called repeatedly in one process
InitResolve ==
    /\ catalog \in Catalogs
    /\ cache = <<>>
    /\ queries = [n \in {NormFB, NormZ} |-> 0]
    /\ calls = 0
    /\ last = NoCall
    /\ files = <<>>
    /\ wheel = <<>>
    /\ run = 0
    /\ result = <<>>
    /\ prev_result = <<>>
    /\ batch = <<>>
    /\ pos = 1
    /\ new_wheels = <<>>
    /\ outcomes = <<>>
    /\ final_dir = {}
    /\ broken_dir = {}
    /\ mpc = "idle"
    /\ db = <<>>
    /\ store = <<>>
    /\ top_listing = <<>>
    /\ pkg_listing = <<>>
    /\ signal = "none"
    /\ adds = 0

NextResolve == GetPypiWheelUrl /\ UNCHANGED <<cmpVars, mainVars, idxVars>>
SpecResolve == InitResolve /\ [][NextResolve]_vars

\* python -m cowhepaco <conda packages>
InitMain ==
    /\ batch \in SeqsUpTo(PackageKinds, MaxBatch) \ {<<>>}
    /\ pos = 1
    /\ new_wheels = <<>>
    /\ outcomes = <<>>
    /\ final_dir = {}
    /\ broken_dir = {}
    /\ mpc = "running"
    /\ files = <<>>
    /\ wheel = <<>>
    /\ run = 0
    /\ result = <<>>
    /\ prev_result = <<>>
    /\ catalog = MainCatalog
    /\ cache = <<>>
    /\ queries = [n \in {NormFB, NormZ} |-> 0]
    /\ calls = 0
    /\ last = NoCall
    /\ db = <<>>
    /\ store = <<>>
    /\ top_listing = <<>>
    /\ pkg_listing = <<>>
    /\ signal = "none"
    /\ adds = 0

NextMain ==
    \/ MainStep /\ UNCHANGED <<cmpVars, idxVars>>
    \/ MainReturn /\ UNCHANGED <<cmpVars, idxVars>>
    \/ MainUpdateIndex /\ UNCHANGED <<cmpVars, idxVars>>
SpecMain == InitMain /\ [][NextMain]_vars

\* package_index add <wheels>
InitIndex ==
    /\ db = <<>>
    /\ store = <<>>
    /\ top_listing = <<>>
    /\ pkg_listing = <<>>
    /\ signal = "none"
    /\ adds = 0
    /\ files = <<>>
    /\ wheel = <<>>
    /\ run = 0
    /\ result = <<>>
    /\ prev_result = <<>>
    /\ catalog = MainCatalog
    /\ cache = <<>>
    /\ queries = [n \in {NormFB, NormZ} |-> 0]
    /\ calls = 0
    /\ last = NoCall
    /\ batch = <<>>
    /\ pos = 1
    /\ new_wheels = <<>>
    /\ outcomes = <<>>
    /\ final_dir = {}
    /\ broken_dir = {}
    /\ mpc = "idle"

NextIndex == add_wheel /\ UNCHANGED <<cmpVars, resVars, mainVars>>
SpecIndex == InitIndex /\ [][NextIndex]_vars

Init == InitCompare
Next == NextCompare
Spec == Init /\ [][Next]_vars

(***************************************************************************)
(* Claims about compare (SpecCompare).                                     *)
(***************************************************************************)
\* the source entries that fall under the library placement rule
LibraryEntries == {i \in DOMAIN files : HasSegment(files[i].name, "site-packages")}

\* the library-relative name of source entry i
LibName(i) == PartitionAfter(files[i].name, "site-packages")

\* the discrepancies reported under a given name
ReportedFor(n) == {e \in Range(result) : e[2] = n}

\* what the library rule is claimed to yield for source entry i
ClaimedLibrary(i) ==
    LET n == LibName(i)
    IN  IF Holds(wheel, n) /\ ReadMember(wheel, n) = files[i].data THEN <<>>
        ELSE IF Holds(wheel, n) THEN << <<"differ", n>> >>
        ELSE IF SegEndsWith(LastSeg(files[i].name), ".pyc") THEN <<>>
        ELSE << <<"not found", n>> >>

\* C1 as stated: for every source entry under site-packages with
\* library-relative name n, identical bytes give no discrepancy for n,
\* different bytes give exactly one ("differ", n), an absent .pyc gives
\* nothing, any other absent file gives exactly one ("not found", n), and
\* n is never reported as "additional".
C1_AsStated ==
    run >= 1 =>
        \A i \in LibraryEntries :
            LET n == LibName(i)
            IN  /\ <<"additional", n>> \notin Range(result)
                /\ IF Holds(wheel, n) /\ ReadMember(wheel, n) = files[i].data
                   THEN ReportedFor(n) = {}
                   ELSE IF Holds(wheel, n)
                   THEN Count(result, <<"differ", n>>) = 1
                   ELSE IF SegEndsWith(LastSeg(files[i].name), ".pyc")
                   THEN ReportedFor(n) = {}
                   ELSE Count(result, <<"not found", n>>) = 1

\* C1 as amended: every source entry under site-packages contributes, at
\* its place in source order and whatever the other entries produced,
\* nothing (identical bytes, or an absent .pyc), one ("differ", n) or one
\* ("not found", n); n is never reported as "additional"; and the returned
\* list drops every discrepancy whose name starts with a *.dist-info
\* segment, so for such n nothing at all is reported.
C1_Library ==
    run >= 1 =>
        /\ SelectSeq(result, LAMBDA e : e[1] # "additional")
             = SelectSeq(
                   Flatten([i \in DOMAIN files |->
                       IF i \in LibraryEntries THEN ClaimedLibrary(i)
                       ELSE EntryErrors(files[i], wheel, read_entry_points(wheel),
                                        get_data_directory(wheel))]),
                   LAMBDA e : ~SegEndsWith(FirstSeg(e[2]), ".dist-info"))
        /\ \A i \in LibraryEntries :
               /\ <<"additional", LibName(i)>> \notin Range(result)
               /\ SegEndsWith(FirstSeg(LibName(i)), ".dist-info")
                      => ReportedFor(LibName(i)) = {}

\* a run that reported a differing library file, kept going, and dropped
\* the differing RECORD of the metadata directory that followed it
C1_Witness ==
    /\ run >= 1
    /\ wheel = WheelPlain
    /\ files = <<Source(<<"lib", "site-packages", DI, "RECORD">>, DataX),
                 Source(<<"lib", "site-packages", "pkg", "mod.py">>, DataY)>>
    /\ result = << <<"differ", <<"pkg", "mod.py">> >> >>

\* the first line of a script: its text up to the first newline
FirstLine(data) ==
    LET nls == {j \in DOMAIN data : data[j] = "\n"}
    IN  IF nls = {} THEN data
        ELSE SubSeq(data, 1, (CHOOSE j \in nls : \A k \in nls : j <= k) - 1)

\* data with the directory prefix of the interpreter path removed from a
\* leading "#!" line: the interpreter path runs from after "#!" to the
\* first blank of the line
WithoutInterpreterDir(data) ==
    IF Len(data) >= 2 /\ data[1] = "#" /\ data[2] = "!"
    THEN LET line == FirstLine(data)
             blanks == {j \in 3..Len(line) : line[j] = " "}
             stop == IF blanks = {} THEN Len(line) + 1
                     ELSE CHOOSE j \in blanks : \A k \in blanks : j <= k
             slashes == {j \in 3..(stop - 1) : line[j] = "/"}
         IN  IF slashes = {} THEN data
             ELSE <<"#", "!">>
                  \o SubSeq(data, (CHOOSE j \in slashes : \A k \in slashes : k <= j) + 1,
                            Len(data))
    ELSE data

\* C7: under the data-directory rule a source file and its remapped
\* counterpart are reported as ("differ", name) exactly when they differ
\* after removing only the directory prefix of the interpreter path, so a
\* difference in the interpreter name or in an argument is reported.
C7_Shebang ==
    (run >= 1 /\ Len(files) = 1
        /\ Placement(files[1], read_entry_points(wheel), get_data_directory(wheel)) = "data"
        /\ Holds(wheel, DataName(files[1].name, get_data_directory(wheel))))
    => LET name == DataName(files[1].name, get_data_directory(wheel))
       IN  (<<"differ", name>> \in Range(result))
             <=> (WithoutInterpreterDir(files[1].data)
                    # WithoutInterpreterDir(ReadMember(wheel, name)))

\* C8: two runs of compare on the same source files and the same
\* counterpart return the same list in the same order.
C8_Deterministic == run >= 2 => result = prev_result

(***************************************************************************)
(* Claims about get_pypi_wheel_url (SpecResolve).                          *)
(***************************************************************************)
\* the latest call returned normally and worked on the catalog's listing
Answered ==
    /\ calls >= 1
    /\ last.raised = None
    /\ NormalizeUnderscore(last.name) \in DOMAIN cache
    /\ cache[NormalizeUnderscore(last.name)]
           = Some(catalog[NormalizeUnderscore(last.name)])

\* the candidates of the latest call: the published files of the requested
\* name and version
Candidates ==
    {f \in Range(catalog[NormalizeUnderscore(last.name)]) :
        /\ f.dist = NormalizeUnderscore(last.name)
        /\ f.version = last.version
        /\ f.tag # <<>>}

\* rule 1: the build tag equals the requested tag
ExactMatches == {f \in Candidates : Some(f.tag) = last.tag}

\* rule 2: the tag shares the requested tag's first two segments and
\* contains both markers
BinaryMatches ==
    {f \in Candidates :
        /\ last.tag # Nothing
        /\ Len(last.tag[1]) >= 2
        /\ Len(f.tag) >= 2
        /\ f.tag[1] = last.tag[1][1]
        /\ f.tag[2] = last.tag[1][2]
        /\ HasManylinux(f.tag)
        /\ HasX86(f.tag)}

\* rules 3 and 4: the universal tags
WithTag(t) == {f \in Candidates : f.tag = t}

\* the requested tag splits into at least three "-"-delimited segments
ThreePartTag == last.tag # Nothing /\ Len(last.tag[1]) >= 3

\* the answer is a member of the first non-empty set, not-found if none is
FirstOf(sets) ==
    LET full == {i \in DOMAIN sets : sets[i] # {}}
    IN  IF full = {} THEN last.result = Nothing
        ELSE /\ last.result # Nothing
             /\ last.result[1] \in sets[CHOOSE i \in full : \A j \in full : i <= j]

\* C2 as stated: for every listing and every requested name, version and
\* tag the call returns the first candidate that exists among exact tag,
\* same interpreter and ABI with manylinux and x86_64, py3-none-any,
\* py2.py3-none-any, and not-found only when none of the four exists.
C2_AsStated ==
    Answered =>
        FirstOf(<<ExactMatches, BinaryMatches, WithTag(TagPy3), WithTag(TagPy23)>>)

\* C2 as amended: the four-step order holds whenever the requested tag has
\* at least three "-"-delimited segments; for a missing tag or one with
\* fewer segments only the exact match is tried and the call returns
\* not-found otherwise, even when a universal wheel is published.
C2_Selection ==
    Answered =>
        IF ThreePartTag
        THEN FirstOf(<<ExactMatches, BinaryMatches, WithTag(TagPy3), WithTag(TagPy23)>>)
        ELSE FirstOf(<<ExactMatches>>)

\* a call for a linux tag that has no exact match, answered with the
\* manylinux wheel although py3-none-any is published as well
C2_Witness ==
    /\ Answered
    /\ last.tag = Some(TagLinux)
    /\ ExactMatches = {}
    /\ WithTag(TagPy3) # {}
    /\ last.result = Some(WheelFile(NormFB, "1.0", TagMany))

\* C9: the remote catalog is queried at most once per normalized package
\* name, whether the first query succeeded or failed.
C9_QueriedOnce == \A n \in DOMAIN queries : queries[n] <= 1

(***************************************************************************)
(* Claims about main (SpecMain).                                           *)
(***************************************************************************)
\* main has ended, by returning or by an exception leaving it
Ended == mpc # "running"

\* C3: an archive fault or a network fault while processing one package
\* becomes a reported outcome of that package and does not leave its
\* processing, so every later package of the batch is still processed:
\* when main has ended, every package of the batch has an outcome.
C3_Isolated == Ended => Len(outcomes) = Len(batch)

\* the wheel has a record in the index store and an entry in its listing
Indexed(w) ==
    /\ \E i \in DOMAIN db : db[i].path = w
    /\ normalize(w.dist) \in Range(top_listing)
    /\ normalize(w.dist) \in DOMAIN pkg_listing
    /\ \E k \in DOMAIN pkg_listing[normalize(w.dist)] :
           pkg_listing[normalize(w.dist)][k].path = w

\* C4: when every package of the batch has been processed and compare
\* found no discrepancy for at least one of them, the run completes and
\* every such wheel, moved to final storage, has a record in the index
\* store and appears in the regenerated listing.
C4_Indexed ==
    (Ended /\ Len(outcomes) = Len(batch) /\ new_wheels # <<>>)
    => /\ mpc = "done"
       /\ \A k \in DOMAIN new_wheels :
              new_wheels[k] \in final_dir /\ Indexed(new_wheels[k])

(***************************************************************************)
(* Claims about the index (SpecIndex).                                     *)
(***************************************************************************)
\* the package name and the version an artifact's file name declares
ArtifactKey(filename) == <<filename.dist, filename.version>>

\* C5: after any sequence of add_wheel calls the index holds at most one
\* record per (package name, version) of the artifacts inserted.
C5_Unique ==
    \A i, j \in DOMAIN db :
        ArtifactKey(db[i].path) = ArtifactKey(db[j].path) => i = j

\* the stored artifacts whose name normalizes to n, with their digests
ArtifactsOf(n) ==
    {[path |-> db[i].path, sha256 |-> db[i].sha256] :
        i \in {k \in DOMAIN db : normalize(db[k].name) = n}}

\* C6: after update_index the top-level listing contains each distinct
\* normalized package name exactly once, and the listing of a normalized
\* name contains exactly the stored artifacts whose name normalizes to it.
C6_Listing ==
    signal \in {"added", "duplicate"} =>
        \A n \in {normalize(db[i].name) : i \in DOMAIN db} :
            /\ Count(top_listing, n) = 1
            /\ n \in DOMAIN pkg_listing
            /\ Range(pkg_listing[n]) = ArtifactsOf(n)

\* C10: every record's digest is the SHA-256 of the bytes now stored at
\* the record's path; a rejected duplicate changes neither.
C10_Digest ==
    \A i \in DOMAIN db :
        /\ db[i].path \in DOMAIN store
        /\ db[i].sha256 = calculate_sha256(store[db[i].path])

====
